---- MODULE Spec2Model ----
(***************************************************************************)
(* Lifecycle model of the image server: the images table (metadata rows),  *)
(* the image folder (files), the upload handler with its blocking worker,  *)
(* the serve handler with its lazy-transcode writer, and the               *)
(* DatabaseReceiver (MarkComputed / CleanExpired handlers).                *)
(*                                                                         *)
(* Every `.await` of the source is a step boundary: one action models the  *)
(* code between two suspension points.  Option<T> is modelled as a set     *)
(* with at most one element (None == {}, Some(x) == {x}).                  *)
(***************************************************************************)
EXTENDS Integers, Sequences, FiniteSets

\* ------------------------------------------------------------------ bounds
MaxTime     == 2   \* the clock (Utc::now(), in seconds) runs 0..MaxTime
NumIds      == 1   \* size of the identifier space Uuid::new_v4 draws from
MaxInFlight == 2   \* request handlers in flight together
ChanCap     == 1   \* capacity of the DatabaseMessage channel (1024 in Database::new)
MaxTasks    == 1   \* cap on not-yet-run tasks of one kind spawned by the receiver

\* ------------------------------------------------------------- value sets
None == {}
Some(x) == {x}
Unwrap(o) == CHOOSE x \in o : TRUE

Ids == 1..NumIds
UploadSlots == 1..MaxInFlight
ServeSlots == 1..MaxInFlight

\* ImageFormat: the variants of the codec's format enum the model draws from
PNG == "Png"
JPG == "Jpeg"
Formats == {PNG, JPG}

\* ?ttl_secs= of an upload (an i64): absent, negative, zero, positive
RequestedTtls == {None, Some(-1), Some(0), Some(1), Some(4)}
\* the requested TTLs drawn from when handlers run concurrently
FewTtls == {None, Some(0), Some(1)}
\* IMAGE_TTL_SECS of the configuration: absent or an i64
AllowedTtls == {None, Some(3)}
\* the IMAGE_TTL_SECS drawn from when the TTL policy alone is explored
ConfiguredTtls == {None, Some(-2), Some(0), Some(2), Some(3)}
\* ?format= of a serve request
TargetFormats == {None, Some(JPG)}
\* ?width= / ?height= of a serve request
TargetSizes == {None, Some(2)}
NoSizes == {None}
\* the uploaded pictures: native width and height, and whether the bytes,
\* which sniffed as an image, also decode
Uploadable == {[w |-> 4, h |-> 2, decodes |-> TRUE], [w |-> 4, h |-> 2, decodes |-> FALSE]}

VARIABLES
    now,                \* Utc::now()
    image_ttl_allowed,  \* Database.image_ttl_allowed (Config.image_ttl)
    images,             \* the images table: set of rows
    files,              \* the image folder: ImagePath -> Option<bytes>
    channel,            \* the mpsc channel of DatabaseMessage
    uploads,            \* the upload handlers (save_image callers)
    serves,             \* the serve handlers (get_image callers)
    workers,            \* detached tasks: spawn_blocking of save_image, spawn of save_raw_image
    computed_tasks,     \* spawned image_computed tasks not yet run, per (id, format)
    clean_tasks,        \* spawned clean_expired tasks that have not yet run their DELETE
    removals            \* files a clean_expired task still has to remove, per (id, format)

vars == <<now, image_ttl_allowed, images, files, channel, uploads, serves, workers,
          computed_tasks, clean_tasks, removals>>

\* ------------------------------------------------------- image_format.rs
PNG_EXT == "png"
JPG_EXT == "jpg"
JPEG_EXT == "jpeg"

from_str(s) ==
    IF s = PNG_EXT THEN Some(PNG)
    ELSE IF s = JPG_EXT \/ s = JPEG_EXT THEN Some(JPG)
    ELSE None

to_str(f) == IF f = PNG THEN PNG_EXT ELSE JPG_EXT

extension(f) == to_str(f)

unwrap_or_default(o) == IF o = None THEN PNG ELSE Unwrap(o)

\* ImagePath::new: image_folder/<hex32(identifier)>.<extension>; the folder is
\* fixed, and the hex rendering of an identifier is one-to-one.
ImagePath(image_identifier, image_format) == <<image_identifier, extension(image_format)>>

Paths == Ids \X {PNG_EXT, JPG_EXT}

\* ----------------------------------------------------------- the schema
\* images(image_identifier, image_format, computed default false, expires_at,
\* primary key (image_identifier, image_format))
DefaultComputed == FALSE

PrimaryKeyViolation(table, image_identifier, tag) ==
    \E r \in table : r.image_identifier = image_identifier /\ r.image_format = tag

NewRow(image_identifier, tag, expires_at) ==
    [image_identifier |-> image_identifier, image_format |-> tag,
     computed |-> DefaultComputed, expires_at |-> expires_at]

\* ------------------------------------------------------------ database.rs
\* determine_eol with the comparison of requested and max turned around
determine_eol_flipped(requested, max, t) ==
    IF requested = None
    THEN (IF max = None THEN None ELSE Some(t + Unwrap(max)))
    ELSE IF max # None
         THEN (IF Unwrap(requested) < Unwrap(max)
               THEN Some(t + Unwrap(max))
               ELSE Some(t + Unwrap(requested)))
         ELSE Some(t + Unwrap(requested))

\* Database::determine_eol, with Utc::now() = t
determine_eol(requested, max, t) ==
    IF requested = None
    THEN (IF max = None THEN None ELSE Some(t + Unwrap(max)))
    ELSE IF max # None
         THEN (IF Unwrap(requested) > Unwrap(max)
               THEN Some(t + Unwrap(max))
               ELSE Some(t + Unwrap(requested)))
         ELSE Some(t + Unwrap(requested))

\* Database::file_exists
file_exists(image_identifier) ==
    \E r \in images : r.image_identifier = image_identifier

\* get_image_location without the test of the computed flag on a hit
get_image_location_unflagged(record, file_identifier, image_format, max_time) ==
    LET active == {r \in record : r.expires_at > max_time}
        hit == {r \in active : from_str(r.image_format) = Some(image_format)}
    IN  IF active = {}
        THEN {[kind |-> "NotFound", path |-> None]}
        ELSE IF hit # {}
        THEN {[kind |-> "Ok", path |-> Some(ImagePath(file_identifier, image_format))]}
        ELSE {[kind |-> "FoundButNotInFormat",
               path |-> Some(ImagePath(file_identifier, Unwrap(from_str(r.image_format))))]
              : r \in active}

\* The results Database::get_image_location can return for the rows `record`
\* the SELECT fetched.  The SELECT has no ORDER BY, so active.first() is any
\* of the active rows.
get_image_location(record, file_identifier, image_format, max_time) ==
    LET active == {r \in record : r.expires_at > max_time}
        hit == {r \in active : from_str(r.image_format) = Some(image_format)}
    IN  IF active = {}
        THEN {[kind |-> "NotFound", path |-> None]}
        ELSE IF hit # {}
        THEN (IF \A r \in hit : r.computed
              THEN {[kind |-> "Ok",
                     path |-> Some(ImagePath(file_identifier, image_format))]}
              ELSE {[kind |-> "NotComputed", path |-> None]})
        ELSE {[kind |-> "FoundButNotInFormat",
               path |-> Some(ImagePath(file_identifier, Unwrap(from_str(r.image_format))))]
              : r \in active}

\* the test of get_image_location that posts CleanExpired
any_expired(record, max_time) == \E r \in record : r.expires_at < max_time

\* ----------------------------------------------------------- transcode.rs
\* DynamicImage::resize keeps the aspect ratio: the picture is scaled to the
\* largest size that fits in nwidth x nheight, each side rounded, at least 1.
RoundDiv(a, b) == (2 * a + b) \div (2 * b)
Max(a, b) == IF a >= b THEN a ELSE b

resize(image, nwidth, nheight) ==
    IF nwidth * image.h <= nheight * image.w
    THEN [w |-> Max(RoundDiv(image.w * nwidth, image.w), 1),
          h |-> Max(RoundDiv(image.h * nwidth, image.w), 1)]
    ELSE [w |-> Max(RoundDiv(image.w * nheight, image.h), 1),
          h |-> Max(RoundDiv(image.h * nheight, image.h), 1)]

\* transcode: the bytes it yields, as (format, width, height) of the picture
transcode(image, settings) ==
    LET sized == IF settings.image_width # None \/ settings.image_height # None
                 THEN resize(image,
                             IF settings.image_width = None THEN image.w
                             ELSE Unwrap(settings.image_width),
                             IF settings.image_height = None THEN image.h
                             ELSE Unwrap(settings.image_height))
                 ELSE [w |-> image.w, h |-> image.h]
    IN  [format |-> IF settings.image_format = None THEN PNG
                    ELSE Unwrap(settings.image_format),
         w |-> sized.w, h |-> sized.h]

\* ImageReader::decode of stored bytes
decode(bytes) == [w |-> bytes.w, h |-> bytes.h]

\* ------------------------------------------------------------------ state
Keys == Ids \X Formats

Computed(image_identifier, image_format) ==
    [type |-> "Computed", image_identifier |-> image_identifier, image_format |-> image_format]
CleanExpired == [type |-> "CleanExpired"]

NoSettings == [image_format |-> None, image_width |-> None, image_height |-> None]

IdleUpload ==
    [pc |-> "idle", ttl |-> None, picture |-> None, file_identifier |-> None,
     image_eol |-> None, result |-> "none"]

IdleServe ==
    [pc |-> "idle", image_id |-> None, settings |-> NoSettings, max_time |-> None,
     sweep |-> FALSE,
     location |-> [kind |-> "none", path |-> None], data |-> None, result |-> "none"]

Start(configured) ==
    /\ now = 0
    /\ image_ttl_allowed \in configured
    /\ images = {}
    /\ files = [p \in Paths |-> None]
    /\ channel = <<>>
    /\ uploads = [u \in UploadSlots |-> IdleUpload]
    /\ serves = [s \in ServeSlots |-> IdleServe]
    /\ workers = {}
    /\ computed_tasks = [k \in Keys |-> 0]
    /\ clean_tasks = 0
    /\ removals = [p \in Paths |-> 0]

Init == Start(AllowedTtls)

\* --------------------------------------------------------------- the clock
Tick ==
    /\ now < MaxTime
    /\ now' = now + 1
    /\ UNCHANGED <<image_ttl_allowed, images, files, channel, uploads, serves, workers,
                   computed_tasks, clean_tasks, removals>>

\* ------------------------------------------------- upload and save_image
\* the request handlers that have been started and have not yet answered
InFlight ==
    Cardinality({u \in UploadSlots : uploads[u].pc # "idle"})
    + Cardinality({s \in ServeSlots : serves[s].pc # "idle"})

\* save_image has returned `result` (or the bytes did not sniff as an image):
\* what the handler still holds is the identifier and the response
Response(up, result) ==
    [IdleUpload EXCEPT !.pc = "done", !.file_identifier = up.file_identifier,
                       !.result = result]

\* api::upload up to the first await of save_image's insert: the bytes are
\* sniffed, determine_eol runs, and the minting loop ends with an identifier
\* for which file_exists answered false.  At most `limit` handlers are in
\* flight, the requested TTL is one of `ttls`, and the handler slots, which
\* are interchangeable, are taken in order.
UploadMint(u, limit, ttls) ==
    /\ uploads[u].pc = "idle"
    /\ InFlight < limit
    /\ \A v \in UploadSlots : v < u => uploads[v].pc # "idle"
    /\ \E ttl \in ttls, picture \in Uploadable, sniffs \in BOOLEAN :
         IF ~sniffs
         THEN uploads' = [uploads EXCEPT ![u] = Response(IdleUpload, "Invalid image format")]
         ELSE \E uid \in Ids :
                /\ ~file_exists(uid)
                /\ uploads' = [uploads EXCEPT ![u] =
                       [pc |-> "minted", ttl |-> ttl, picture |-> Some(picture),
                        file_identifier |-> Some(uid),
                        image_eol |-> determine_eol(ttl, image_ttl_allowed, now),
                        result |-> "none"]]
    /\ UNCHANGED <<now, image_ttl_allowed, images, files, channel, serves, workers,
                   computed_tasks, clean_tasks, removals>>

\* save_image from the INSERT on: the expect on image_eol, the INSERT (which
\* the primary key can reject), the spawn of the blocking worker.
UploadInsert(u) ==
    LET up == uploads[u]
        uid == Unwrap(up.file_identifier)
        picture == Unwrap(up.picture)
    IN
    /\ up.pc = "minted"
    /\ IF up.image_eol = None
       THEN /\ uploads' = [uploads EXCEPT ![u] = Response(up, "panic")]
            /\ UNCHANGED <<images, workers>>
       ELSE IF PrimaryKeyViolation(images, uid, to_str(PNG))
       THEN /\ uploads' = [uploads EXCEPT ![u] = Response(up, "InternalServerError")]
            /\ UNCHANGED <<images, workers>>
       ELSE /\ images' = images \cup {NewRow(uid, to_str(PNG), Unwrap(up.image_eol))}
            /\ workers' = workers \cup
                   {[kind |-> "save_image", image_identifier |-> uid, image_format |-> PNG,
                     decodes |-> picture.decodes,
                     data |-> [format |-> PNG, w |-> picture.w, h |-> picture.h],
                     pc |-> "write"]}
            /\ uploads' = [uploads EXCEPT ![u] = Response(up, "Ok")]
    /\ UNCHANGED <<now, image_ttl_allowed, files, channel, serves, computed_tasks,
                   clean_tasks, removals>>

\* the response has been sent; the handler slot is free again
UploadReturn(u) ==
    /\ uploads[u].pc = "done"
    /\ uploads' = [uploads EXCEPT ![u] = IdleUpload]
    /\ UNCHANGED <<now, image_ttl_allowed, images, files, channel, serves, workers,
                   computed_tasks, clean_tasks, removals>>

\* ------------------------------------------------------ detached workers
\* save_image's spawn_blocking closure up to the send: decode (a failure
\* panics the worker), save_with_format (a failure is only logged);
\* save_raw_image's spawned task up to the send: fs::write (a failure is
\* only logged).
WorkerWrite(wk) ==
    /\ wk.pc = "write"
    /\ IF ~wk.decodes
       THEN /\ workers' = workers \ {wk}
            /\ UNCHANGED files
       ELSE \E written \in BOOLEAN :
              /\ files' = IF written
                          THEN [files EXCEPT
                                  ![ImagePath(wk.image_identifier, wk.image_format)] =
                                      Some(wk.data)]
                          ELSE files
              /\ workers' = (workers \ {wk}) \cup {[wk EXCEPT !.pc = "send"]}
    /\ UNCHANGED <<now, image_ttl_allowed, images, channel, uploads, serves,
                   computed_tasks, clean_tasks, removals>>

\* a worker that sends its Computed message without waiting for its write
WorkerSend_unordered(wk) ==
    /\ Len(channel) < ChanCap
    /\ channel' = Append(channel, Computed(wk.image_identifier, wk.image_format))
    /\ workers' = IF wk.pc = "send" THEN workers \ {wk} ELSE workers
    /\ UNCHANGED <<now, image_ttl_allowed, images, files, uploads, serves,
                   computed_tasks, clean_tasks, removals>>

\* transmitter.send(DatabaseMessage::Computed(..)).await: waits for capacity
WorkerSend(wk) ==
    /\ wk.pc = "send"
    /\ Len(channel) < ChanCap
    /\ channel' = Append(channel, Computed(wk.image_identifier, wk.image_format))
    /\ workers' = workers \ {wk}
    /\ UNCHANGED <<now, image_ttl_allowed, images, files, uploads, serves,
                   computed_tasks, clean_tasks, removals>>

\* ------------------------------------------------- serve_image, get_image
\* get_image has returned `result` (with `data` when it is Ok): what the
\* handler still holds is the request and the response
Answer(sv, result, data) ==
    [IdleServe EXCEPT !.pc = "done", !.image_id = sv.image_id, !.settings = sv.settings,
                      !.result = result, !.data = data]

\* where get_image continues once get_image_location has returned `location`
AfterLocation(sv) ==
    IF sv.location.kind = "NotFound"
    THEN Answer(sv, "NotFound", None)
    ELSE IF sv.location.kind = "NotComputed"
    THEN Answer(sv, "NotComputed", None)
    ELSE IF sv.location.kind = "Ok"
    THEN [sv EXCEPT !.pc = "read"]
    ELSE [sv EXCEPT !.pc = "decode"]

\* get_image up to the end of the SELECT of get_image_location, with
\* max_time = Utc::now(); the rest of get_image_location reads only the
\* fetched rows, so its result is fixed here.  At most `limit` handlers are
\* in flight, width and height are drawn from `sizes`, and the handler slots,
\* which are interchangeable, are taken in order.
ServeLookup(s, limit, sizes) ==
    /\ serves[s].pc = "idle"
    /\ InFlight < limit
    /\ \A v \in ServeSlots : v < s => serves[v].pc # "idle"
    /\ \E image_id \in Ids, format \in TargetFormats,
          width \in sizes, height \in sizes :
         LET record == {r \in images : r.image_identifier = image_id}
             settings == [image_format |-> format, image_width |-> width,
                          image_height |-> height]
         IN  \E location \in get_image_location(record, image_id,
                                                unwrap_or_default(format), now) :
               LET sv == [IdleServe EXCEPT !.image_id = Some(image_id),
                                           !.settings = settings,
                                           !.max_time = Some(now),
                                           !.sweep = any_expired(record, now),
                                           !.location = location]
               IN  serves' = [serves EXCEPT ![s] =
                                 IF sv.sweep THEN [sv EXCEPT !.pc = "send_clean"]
                                 ELSE AfterLocation(sv)]
    /\ UNCHANGED <<now, image_ttl_allowed, images, files, channel, uploads, workers,
                   computed_tasks, clean_tasks, removals>>

\* transmitter.send(DatabaseMessage::CleanExpired).await: waits for capacity
ServeSendClean(s) ==
    /\ serves[s].pc = "send_clean"
    /\ Len(channel) < ChanCap
    /\ channel' = Append(channel, CleanExpired)
    /\ serves' = [serves EXCEPT ![s] = AfterLocation(serves[s])]
    /\ UNCHANGED <<now, image_ttl_allowed, images, files, uploads, workers,
                   computed_tasks, clean_tasks, removals>>

\* the Ok(image_path) arm of get_image: the stored bytes verbatim, or opened,
\* decoded and transcoded when a width or height is asked for
ServeRead(s) ==
    LET sv == serves[s]
        file == files[Unwrap(sv.location.path)]
    IN
    /\ sv.pc = "read"
    /\ IF sv.settings.image_width = None /\ sv.settings.image_height = None
       THEN serves' = [serves EXCEPT ![s] =
                IF file = None
                THEN Answer(sv, "InternalServerError", None)
                ELSE Answer(sv, "Ok", file)]
       ELSE IF file = None
       THEN serves' = [serves EXCEPT ![s] = Answer(sv, "panic", None)]
       ELSE \E encodes \in BOOLEAN :
              serves' = [serves EXCEPT ![s] =
                IF encodes
                THEN Answer(sv, "Ok", Some(transcode(decode(Unwrap(file)), sv.settings)))
                ELSE Answer(sv, "ImageError", None)]
    /\ UNCHANGED <<now, image_ttl_allowed, images, files, channel, uploads, workers,
                   computed_tasks, clean_tasks, removals>>

\* the FoundButNotInFormat arm up to the call of save_raw_image: the source
\* file is opened (unwrap) and decoded, then transcoded with the request's
\* settings
ServeDecode(s) ==
    LET sv == serves[s]
        file == files[Unwrap(sv.location.path)]
    IN
    /\ sv.pc = "decode"
    /\ IF file = None
       THEN serves' = [serves EXCEPT ![s] = Answer(sv, "panic", None)]
       ELSE \E encodes \in BOOLEAN :
              serves' = [serves EXCEPT ![s] =
                IF encodes
                THEN [sv EXCEPT !.pc = "save",
                                !.data = Some(transcode(decode(Unwrap(file)), sv.settings))]
                ELSE Answer(sv, "ImageError", None)]
    /\ UNCHANGED <<now, image_ttl_allowed, images, files, channel, uploads, workers,
                   computed_tasks, clean_tasks, removals>>

\* save_raw_image as get_image calls it (serve_image passes ttl = None):
\* determine_eol, the expect on it, the INSERT (which the primary key can
\* reject), the spawn of the writer task
ServeSaveRaw(s) ==
    LET sv == serves[s]
        image_id == Unwrap(sv.image_id)
        image_format == unwrap_or_default(sv.settings.image_format)
        image_eol == determine_eol(None, image_ttl_allowed, now)
    IN
    /\ sv.pc = "save"
    /\ IF image_eol = None
       THEN /\ serves' = [serves EXCEPT ![s] = Answer(sv, "panic", None)]
            /\ UNCHANGED <<images, workers>>
       ELSE IF PrimaryKeyViolation(images, image_id, to_str(image_format))
       THEN /\ serves' = [serves EXCEPT ![s] = Answer(sv, "InternalServerError", None)]
            /\ UNCHANGED <<images, workers>>
       ELSE /\ images' = images \cup {NewRow(image_id, to_str(image_format), Unwrap(image_eol))}
            /\ workers' = workers \cup
                   {[kind |-> "save_raw_image", image_identifier |-> image_id,
                     image_format |-> image_format, decodes |-> TRUE,
                     data |-> Unwrap(sv.data), pc |-> "write"]}
            /\ serves' = [serves EXCEPT ![s] = Answer(sv, "Ok", sv.data)]
    /\ UNCHANGED <<now, image_ttl_allowed, files, channel, uploads, computed_tasks,
                   clean_tasks, removals>>

\* serve_image with a path segment Uuid::from_str rejects: 400 at once, and
\* get_image is not called
ServeBadRequest(s, limit) ==
    /\ serves[s].pc = "idle"
    /\ InFlight < limit
    /\ \A v \in ServeSlots : v < s => serves[v].pc # "idle"
    /\ serves' = [serves EXCEPT ![s] = Answer(IdleServe, "BadRequest", None)]
    /\ UNCHANGED <<now, image_ttl_allowed, images, files, channel, uploads, workers,
                   computed_tasks, clean_tasks, removals>>

\* The client goes away and the handler's future is dropped at the await it
\* is suspended in.  Nothing after that await runs; the detached tasks that
\* were already spawned go on.  Dropped while save_raw_image awaits its
\* INSERT, the statement has either not been executed or has been executed
\* without the writer task being spawned after it.
ServeCancel(s) ==
    LET sv == serves[s]
        image_id == Unwrap(sv.image_id)
        image_format == unwrap_or_default(sv.settings.image_format)
        image_eol == determine_eol(None, image_ttl_allowed, now)
    IN
    /\ sv.pc \in {"send_clean", "read", "decode", "save"}
    /\ serves' = [serves EXCEPT ![s] = Answer(sv, "Cancelled", sv.data)]
    /\ \/ UNCHANGED images
       \/ /\ sv.pc = "save"
          /\ image_eol # None
          /\ ~PrimaryKeyViolation(images, image_id, to_str(image_format))
          /\ images' = images \cup {NewRow(image_id, to_str(image_format), Unwrap(image_eol))}
    /\ UNCHANGED <<now, image_ttl_allowed, files, channel, uploads, workers,
                   computed_tasks, clean_tasks, removals>>

\* the response has been sent; the handler slot is free again
ServeReturn(s) ==
    /\ serves[s].pc = "done"
    /\ serves' = [serves EXCEPT ![s] = IdleServe]
    /\ UNCHANGED <<now, image_ttl_allowed, images, files, channel, uploads, workers,
                   computed_tasks, clean_tasks, removals>>

\* ---------------------------------------------------------------- api.rs
\* The status of the response, as an Option: a handler that panics sends no
\* response at all.
\* api::upload answers Html<String>, which is 200, whatever save_image returned
upload_status(result) ==
    IF result = "panic" THEN None ELSE Some(200)

\* serve_image: the match on what get_image returned
serve_status(result) ==
    IF result = "BadRequest" THEN Some(400)
    ELSE IF result = "ImageError" THEN Some(500)
    ELSE IF result = "NotComputed" THEN Some(404)
    ELSE IF result = "NotFound" THEN Some(404)
    ELSE IF result = "InternalServerError" THEN Some(500)
    ELSE IF result = "Ok" THEN Some(200)
    ELSE None

\* ------------------------------------------------------ DatabaseReceiver
\* compute_message: one message received, its handler spawned as a task
Receive ==
    /\ channel # <<>>
    /\ LET message == Head(channel)
       IN  IF message.type = "Computed"
           THEN LET k == <<message.image_identifier, message.image_format>>
                IN  /\ computed_tasks[k] < MaxTasks
                    /\ computed_tasks' = [computed_tasks EXCEPT ![k] = @ + 1]
                    /\ UNCHANGED clean_tasks
           ELSE /\ clean_tasks < MaxTasks
                /\ clean_tasks' = clean_tasks + 1
                /\ UNCHANGED computed_tasks
    /\ channel' = Tail(channel)
    /\ UNCHANGED <<now, image_ttl_allowed, images, files, uploads, serves, workers,
                   removals>>

\* an UPDATE that turns the computed flag of the matching row around
image_computed_toggled(table, image_id, file_format) ==
    {IF r.image_identifier = image_id /\ r.image_format = to_str(file_format)
     THEN [r EXCEPT !.computed = ~r.computed] ELSE r : r \in table}

\* the UPDATE of image_computed: SET computed=true WHERE the key matches
image_computed(table, image_id, file_format) ==
    {IF r.image_identifier = image_id /\ r.image_format = to_str(file_format)
     THEN [r EXCEPT !.computed = TRUE] ELSE r : r \in table}

\* the image_computed task the receiver spawned for a Computed message
ImageComputed(k) ==
    /\ computed_tasks[k] > 0
    /\ computed_tasks' = [computed_tasks EXCEPT ![k] = @ - 1]
    /\ images' = image_computed(images, k[1], k[2])
    /\ UNCHANGED <<now, image_ttl_allowed, files, channel, uploads, serves, workers,
                   clean_tasks, removals>>

\* a DELETE that does not look at the computed flag
Expired_unflagged(table, t) == {r \in table : r.expires_at < t}

\* the rows the DELETE of clean_expired matches at time t
Expired(table, t) == {r \in table : r.expires_at < t /\ r.computed = TRUE}

\* clean_expired up to the end of its DELETE ... RETURNING
CleanDelete ==
    LET expired == Expired(images, now)
        paths == {ImagePath(r.image_identifier, Unwrap(from_str(r.image_format))) : r \in expired}
    IN
    /\ clean_tasks > 0
    /\ \A p \in paths : removals[p] < MaxTasks
    /\ clean_tasks' = clean_tasks - 1
    /\ images' = images \ expired
    /\ removals' = [p \in Paths |-> IF p \in paths THEN removals[p] + 1 ELSE removals[p]]
    /\ UNCHANGED <<now, image_ttl_allowed, files, channel, uploads, serves, workers,
                   computed_tasks>>

\* one turn of clean_expired's loop: remove_file (a failure is only logged)
RemoveFile(p) ==
    /\ removals[p] > 0
    /\ removals' = [removals EXCEPT ![p] = @ - 1]
    /\ files' = [files EXCEPT ![p] = None]
    /\ UNCHANGED <<now, image_ttl_allowed, images, channel, uploads, serves, workers,
                   computed_tasks, clean_tasks>>

\* -------------------------------------------------------- specification
Write == \E wk \in workers : WorkerWrite(wk)
Send == \E wk \in workers : WorkerSend(wk)

Next ==
    \/ Tick
    \/ \E u \in UploadSlots : UploadMint(u, MaxInFlight, FewTtls)
    \/ \E u \in UploadSlots : UploadInsert(u)
    \/ \E u \in UploadSlots : UploadReturn(u)
    \/ Write
    \/ Send
    \/ \E s \in ServeSlots : ServeLookup(s, MaxInFlight, NoSizes)
    \/ \E s \in ServeSlots : ServeBadRequest(s, MaxInFlight)
    \/ \E s \in ServeSlots : ServeSendClean(s)
    \/ \E s \in ServeSlots : ServeRead(s)
    \/ \E s \in ServeSlots : ServeDecode(s)
    \/ \E s \in ServeSlots : ServeSaveRaw(s)
    \/ \E s \in ServeSlots : ServeReturn(s)
    \/ Receive
    \/ \E k \in Keys : ImageComputed(k)
    \/ CleanDelete
    \/ \E p \in Paths : RemoveFile(p)

Spec == Init /\ [][Next]_vars

\* One request handler at a time (the detached workers and the receiver's
\* tasks still run beside it), with every requested TTL and every size.
NextSeq ==
    \/ Tick
    \/ \E u \in UploadSlots : UploadMint(u, 1, RequestedTtls)
    \/ \E u \in UploadSlots : UploadInsert(u)
    \/ \E u \in UploadSlots : UploadReturn(u)
    \/ Write
    \/ Send
    \/ \E s \in ServeSlots : ServeLookup(s, 1, TargetSizes)
    \/ \E s \in ServeSlots : ServeBadRequest(s, 1)
    \/ \E s \in ServeSlots : ServeSendClean(s)
    \/ \E s \in ServeSlots : ServeRead(s)
    \/ \E s \in ServeSlots : ServeDecode(s)
    \/ \E s \in ServeSlots : ServeSaveRaw(s)
    \/ \E s \in ServeSlots : ServeReturn(s)
    \/ Receive
    \/ \E k \in Keys : ImageComputed(k)
    \/ CleanDelete
    \/ \E p \in Paths : RemoveFile(p)

SeqSpec == Init /\ [][NextSeq]_vars

\* One request handler at a time, under the scheduling the runtime gives:
\* the clock advances, and every handler that has been started, every
\* detached worker and every task of the receiver that can take its next
\* step eventually takes it.  Requests arrive as the clients please.
NextFair ==
    \/ Tick
    \/ \E u \in UploadSlots : UploadMint(u, 1, FewTtls)
    \/ \E u \in UploadSlots : UploadInsert(u)
    \/ \E u \in UploadSlots : UploadReturn(u)
    \/ Write
    \/ Send
    \/ \E s \in ServeSlots : ServeLookup(s, 1, NoSizes)
    \/ \E s \in ServeSlots : ServeBadRequest(s, 1)
    \/ \E s \in ServeSlots : ServeSendClean(s)
    \/ \E s \in ServeSlots : ServeRead(s)
    \/ \E s \in ServeSlots : ServeDecode(s)
    \/ \E s \in ServeSlots : ServeSaveRaw(s)
    \/ \E s \in ServeSlots : ServeReturn(s)
    \/ Receive
    \/ \E k \in Keys : ImageComputed(k)
    \/ CleanDelete
    \/ \E p \in Paths : RemoveFile(p)

Fairness ==
    /\ WF_vars(Tick)
    /\ \A u \in UploadSlots : WF_vars(UploadInsert(u)) /\ WF_vars(UploadReturn(u))
    /\ WF_vars(Write)
    /\ WF_vars(Send)
    /\ \A s \in ServeSlots :
          /\ WF_vars(ServeSendClean(s))
          /\ WF_vars(ServeRead(s))
          /\ WF_vars(ServeDecode(s))
          /\ WF_vars(ServeSaveRaw(s))
          /\ WF_vars(ServeReturn(s))
    /\ WF_vars(Receive)
    /\ \A k \in Keys : WF_vars(ImageComputed(k))
    /\ WF_vars(CleanDelete)
    /\ \A p \in Paths : WF_vars(RemoveFile(p))

FairSpec == Init /\ [][NextFair]_vars /\ Fairness

\* The same, with clients that may drop a GET request before it is answered.
NextCancel ==
    \/ NextFair
    \/ \E s \in ServeSlots : ServeCancel(s)

CancelSpec == Init /\ [][NextCancel]_vars /\ Fairness

\* Uuid::new_v4 has not yet returned an identifier that is in use or has left
\* a trace: no row, no file, no task knows any identifier.
Unminted ==
    /\ images = {}
    /\ workers = {}
    /\ channel = <<>>
    /\ \A p \in Paths : files[p] = None /\ removals[p] = 0
    /\ \A k \in Keys : computed_tasks[k] = 0
    /\ \A u \in UploadSlots : uploads[u].file_identifier = None

\* an upload that mints an identifier only while none has been minted before
UploadMintFresh(u) ==
    /\ Unminted
    /\ UploadMint(u, 1, FewTtls)

\* One request handler at a time, with identifiers that never repeat.
NextFresh ==
    \/ Tick
    \/ \E u \in UploadSlots : UploadMintFresh(u)
    \/ \E u \in UploadSlots : UploadInsert(u)
    \/ \E u \in UploadSlots : UploadReturn(u)
    \/ Write
    \/ Send
    \/ \E s \in ServeSlots : ServeLookup(s, 1, NoSizes)
    \/ \E s \in ServeSlots : ServeBadRequest(s, 1)
    \/ \E s \in ServeSlots : ServeSendClean(s)
    \/ \E s \in ServeSlots : ServeRead(s)
    \/ \E s \in ServeSlots : ServeDecode(s)
    \/ \E s \in ServeSlots : ServeSaveRaw(s)
    \/ \E s \in ServeSlots : ServeReturn(s)
    \/ Receive
    \/ \E k \in Keys : ImageComputed(k)
    \/ CleanDelete
    \/ \E p \in Paths : RemoveFile(p)

FreshSpec == Init /\ [][NextFresh]_vars

\* The upload handlers alone, one at a time, with every requested and every
\* configured TTL.
InitTtl == Start(ConfiguredTtls)

NextTtl ==
    \/ Tick
    \/ \E u \in UploadSlots : UploadMint(u, 1, RequestedTtls)
    \/ \E u \in UploadSlots : UploadInsert(u)
    \/ \E u \in UploadSlots : UploadReturn(u)

TtlSpec == InitTtl /\ [][NextTtl]_vars

\* ------------------------------------------------------ claims: helpers
RowsOf(image_identifier, image_format) ==
    {r \in images : /\ r.image_identifier = image_identifier
                    /\ from_str(r.image_format) = Some(image_format)}

\* the rows a step inserts
Inserted == images' \ {[r EXCEPT !.computed = c] : r \in images, c \in BOOLEAN}

\* the rows a step deletes
Deleted == {r \in images : ~\E q \in images' : /\ q.image_identifier = r.image_identifier
                                               /\ q.image_format = r.image_format}

\* C1: in every reachable state, every row whose computed flag is true has
\* its file in the image folder.
C1_ComputedRowHasFile ==
    \A r \in images :
        r.computed =>
            files[ImagePath(r.image_identifier, Unwrap(from_str(r.image_format)))] # None

\* the serve handler s, about to insert the lazy derivative it has transcoded,
\* finds that a concurrent serve call has inserted the same (identifier,
\* format) since its own lookup: the row was not among the live rows of the
\* lookup at max_time, and it expires after max_time
LostRace(s) ==
    /\ serves[s].pc = "save"
    /\ \E r \in RowsOf(Unwrap(serves[s].image_id),
                        unwrap_or_default(serves[s].settings.image_format)) :
          r.expires_at > Unwrap(serves[s].max_time)

\* C2: of two concurrent serve calls that both take the miss path for the
\* same new (identifier, format), the one that inserts second still returns
\* success with the same bytes as the first, and exactly one row exists
\* afterwards: the conflict is not returned as an error.
C2_ConcurrentMissBothSucceed ==
    [][\A s \in ServeSlots :
          (LostRace(s) /\ serves'[s].pc = "done" /\ image_ttl_allowed # None) =>
              /\ serves'[s].result = "Ok"
              /\ serves'[s].data = serves[s].data
              /\ \A t \in ServeSlots \ {s} :
                    (/\ serves[t].pc = "done" /\ serves[t].result = "Ok"
                     /\ serves[t].image_id = serves[s].image_id
                     /\ serves[t].settings = serves[s].settings)
                    => serves[t].data = serves'[s].data
              /\ Cardinality({r \in images' :
                      /\ r.image_identifier = Unwrap(serves[s].image_id)
                      /\ from_str(r.image_format) =
                             Some(unwrap_or_default(serves[s].settings.image_format))}) = 1]_vars

\* the worker of (i, f) died between the INSERT and the Computed message: the
\* row is not computed and nothing is left that would mark it
Stranded(i, f) ==
    /\ \E r \in RowsOf(i, f) : ~r.computed
    /\ ~\E wk \in workers : wk.image_identifier = i /\ wk.image_format = f
    /\ ~\E n \in 1..Len(channel) : channel[n] = Computed(i, f)
    /\ computed_tasks[<<i, f>>] = 0

Gone(i, f) == RowsOf(i, f) = {} /\ files[ImagePath(i, f)] = None

\* C3: a row whose worker died before marking it computed is, once it has
\* expired and a CleanExpired sweep runs, eventually deleted, and no file of
\* it remains.
C3_StrandedRowReaped ==
    \A i \in Ids, f \in Formats :
        (/\ Stranded(i, f)
         /\ \E r \in RowsOf(i, f) : r.expires_at < now
         /\ clean_tasks > 0)
        ~> Gone(i, f)

\* C4: once a derivative has expired and a serve call for its identifier has
\* been made after that, eventually its row and its file are both gone.
C4_ExpiredDerivativeRemoved ==
    \A i \in Ids, f \in Formats :
        (\E r \in RowsOf(i, f), s \in ServeSlots :
            /\ serves[s].image_id = Some(i)
            /\ serves[s].max_time # None
            /\ r.expires_at < Unwrap(serves[s].max_time))
        ~> Gone(i, f)

\* C5: a row is deleted only by the DELETE of clean_expired, and at the
\* moment a row is deleted its file is already gone from the image folder.
C5_RowDeletedAfterFile ==
    [][\A r \in Deleted :
          /\ clean_tasks' = clean_tasks - 1
          /\ files'[ImagePath(r.image_identifier, Unwrap(from_str(r.image_format)))] = None]_vars

\* C6: an upload whose INSERT hits the primary key (another upload inserted
\* the same identifier after the existence check) retries and succeeds: no
\* upload answers with an internal error.
C6_IngestConflictRetried ==
    \A u \in UploadSlots :
        uploads[u].pc = "done" => uploads[u].result # "InternalServerError"

\* C7: the row a serve call inserts for a lazy derivative expires when the
\* row it was derived from expires.
C7_LazyInheritsExpiry ==
    [][\A s \in ServeSlots :
          (serves[s].pc = "save" /\ serves'[s].pc = "done" /\ serves'[s].result = "Ok") =>
              \A new \in Inserted :
                  \A src \in images :
                      (/\ src.image_identifier = Unwrap(serves[s].image_id)
                       /\ ImagePath(src.image_identifier, Unwrap(from_str(src.image_format)))
                              = Unwrap(serves[s].location.path))
                      => new.expires_at = src.expires_at]_vars

\* the TTL policy as the rule table states it
Min(a, b) == IF a <= b THEN a ELSE b

TtlTable(requested, max, t) ==
    IF requested # None /\ max # None
    THEN Some(t + Min(Unwrap(requested), Unwrap(max)))
    ELSE IF max # None THEN Some(t + Unwrap(max))
    ELSE IF requested # None THEN Some(t + Unwrap(requested))
    ELSE None

\* C8: the TTL policy yields now + min(R, M) when both are given, now + M
\* when only M is, now + R when only R is, and nothing when neither is; the
\* row is inserted with that expires_at, and without one the upload fails and
\* inserts no row.
C8_TtlPolicy ==
    [][\A u \in UploadSlots :
          /\ (uploads[u].pc = "idle" /\ uploads'[u].pc = "minted") =>
                 uploads'[u].image_eol = TtlTable(uploads'[u].ttl, image_ttl_allowed, now)
          /\ (uploads[u].pc = "minted" /\ uploads'[u].pc = "done") =>
                 IF uploads[u].image_eol = None
                 THEN uploads'[u].result # "Ok" /\ images' = images
                 ELSE \A new \in Inserted :
                        new.expires_at = Unwrap(uploads[u].image_eol)]_vars

\* an upload asked for more than the server allows and determine_eol gave it
\* the capped expiry
C8_Witness ==
    \E u \in UploadSlots :
        /\ uploads[u].pc = "minted"
        /\ uploads[u].ttl = Some(4)
        /\ image_ttl_allowed = Some(3)
        /\ uploads[u].image_eol = Some(now + 3)

\* C9: every row is inserted with expires_at strictly after the time of the
\* insertion.
C9_InsertedExpiresInFuture ==
    [][\A new \in Inserted : new.expires_at > now]_vars

\* C10: a serve call at time now answers NotFound exactly when the identifier
\* has no row with expires_at >= now; a row with expires_at = now is served.
C10_NotFoundIffNoLiveRow ==
    [][\A s \in ServeSlots :
          (serves[s].pc = "idle" /\ serves'[s].image_id # None) =>
              LET live == {r \in images :
                              /\ r.image_identifier = Unwrap(serves'[s].image_id)
                              /\ r.expires_at >= now}
                  notfound == /\ serves'[s].location.kind = "NotFound"
                              \/ serves'[s].result = "NotFound"
              IN  notfound <=> (live = {})]_vars

\* the live rows of the target format a serve call for `settings` on
\* image_id finds at time t
Hit(image_id, settings, t) ==
    {r \in RowsOf(image_id, unwrap_or_default(settings.image_format)) : r.expires_at > t}

\* C11: when a live row of the target format exists, a serve call goes on to
\* read its file only if the row is computed; if it is not, the call answers
\* NotComputed, reads no file, and starts no transcode from a sibling format.
C11_HitServedOnlyIfComputed ==
    [][\A s \in ServeSlots :
          /\ (serves[s].pc = "idle" /\ serves'[s].image_id # None) =>
                LET hit == Hit(Unwrap(serves'[s].image_id), serves'[s].settings, now)
                IN  hit # {} =>
                      IF \A r \in hit : r.computed
                      THEN serves'[s].pc \in {"read", "send_clean"}
                           /\ serves'[s].location.kind = "Ok"
                      ELSE /\ serves'[s].pc \in {"done", "send_clean"}
                           /\ \/ serves'[s].location.kind = "NotComputed"
                              \/ serves'[s].result = "NotComputed"
          /\ (serves[s].location.kind = "NotComputed" /\ serves'[s] # serves[s]) =>
                /\ serves'[s] = Answer(serves[s], "NotComputed", None)
                /\ UNCHANGED <<images, files, workers>>]_vars

\* a serve call has answered NotComputed for a live row of its target format
\* whose computed flag is false
C11_Witness ==
    \E s \in ServeSlots :
        /\ serves[s].pc = "done"
        /\ serves[s].result = "NotComputed"
        /\ \E r \in Hit(Unwrap(serves[s].image_id), serves[s].settings, now) : ~r.computed

\* the detached task of (i, f) that has not yet finished its write
Writing(i, f) ==
    \E wk \in workers : /\ wk.image_identifier = i /\ wk.image_format = f
                         /\ wk.pc = "write"

\* C12: for every (i, f), the Computed message of its detached task is sent,
\* handled, and the row marked computed only after that task's write step has
\* finished: nothing of it exists while the task is still before its write.
C12_ComputedAfterWrite ==
    \A i \in Ids, f \in Formats :
        Writing(i, f) =>
            /\ \A r \in RowsOf(i, f) : ~r.computed
            /\ computed_tasks[<<i, f>>] = 0
            /\ \A n \in 1..Len(channel) : channel[n] # Computed(i, f)

\* the lazy derivative's row has been marked computed after its writer task
\* wrote the file and sent its message
C12_Witness ==
    \E i \in Ids :
        /\ \E r \in RowsOf(i, JPG) : r.computed
        /\ files[ImagePath(i, JPG)] # None
        /\ ~Writing(i, JPG)

\* the detached task of (i, f) has not crashed: it is running with bytes that
\* decode, or its Computed message is on its way to image_computed
Working(i, f) ==
    \/ \E wk \in workers : /\ wk.image_identifier = i /\ wk.image_format = f
                            /\ wk.decodes
    \/ \E n \in 1..Len(channel) : channel[n] = Computed(i, f)
    \/ computed_tasks[<<i, f>>] > 0

\* C13: once a serve call for (i, f) has answered NotComputed while the task
\* responsible for (i, f) has not crashed, eventually the row of (i, f) is
\* marked computed and its file exists.
C13_NotComputedThenServable ==
    \A i \in Ids, f \in Formats :
        (/\ \E s \in ServeSlots :
               /\ serves[s].pc = "done"
               /\ serves[s].result = "NotComputed"
               /\ serves[s].image_id = Some(i)
               /\ unwrap_or_default(serves[s].settings.image_format) = f
         /\ \E r \in RowsOf(i, f) : ~r.computed
         /\ Working(i, f))
        ~> (/\ \E r \in RowsOf(i, f) : r.computed
            /\ files[ImagePath(i, f)] # None)

\* C14: the picture a serve call returns has the requested width and the
\* requested height; a dimension that was not requested has the value the
\* uploaded picture has in that axis.
C14_ServedDimensions ==
    \A s \in ServeSlots :
        (serves[s].pc = "done" /\ serves[s].result = "Ok") =>
            LET settings == serves[s].settings
                data == Unwrap(serves[s].data)
            IN  (settings.image_width # None \/ settings.image_height # None) =>
                    /\ IF settings.image_width # None
                       THEN data.w = Unwrap(settings.image_width)
                       ELSE \A picture \in Uploadable : data.w = picture.w
                    /\ IF settings.image_height # None
                       THEN data.h = Unwrap(settings.image_height)
                       ELSE \A picture \in Uploadable : data.h = picture.h

\* C15: an upload of bytes that sniff as an image and whose save fails with
\* an internal error is answered with status 500.
C15_UploadInternalError500 ==
    \A u \in UploadSlots :
        (uploads[u].pc = "done" /\ uploads[u].result = "InternalServerError") =>
            upload_status(uploads[u].result) = Some(500)

\* C16: every outcome of a GET has its status: 400 for an identifier that
\* does not parse, and no store is touched; 404 for NotFound and NotComputed;
\* 500 for every failure of the database, the filesystem or the codec; 200
\* for a successful serve and for nothing else.
C16_ServeStatusMapping ==
    [][\A s \in ServeSlots :
          (serves[s].pc # "done" /\ serves'[s].pc = "done") =>
              LET result == serves'[s].result
                  status == serve_status(result)
              IN  /\ result = "BadRequest" =>
                        /\ status = Some(400)
                        /\ UNCHANGED <<images, files, channel, workers>>
                  /\ result \in {"NotFound", "NotComputed"} => status = Some(404)
                  /\ result \in {"InternalServerError", "ImageError", "panic"} =>
                        status = Some(500)
                  /\ (status = Some(200)) <=> (result = "Ok")]_vars

\* C17: in every reachable state, every file in the image folder has a row
\* of its (identifier, format) whose computed flag is true.
C17_FileHasComputedRow ==
    \A p \in Paths :
        files[p] # None =>
            \E r \in images :
                /\ ImagePath(r.image_identifier, Unwrap(from_str(r.image_format))) = p
                /\ r.computed

\* C18: the worker of an upload goes on to send its Computed message only if
\* its decode, its encode and its write all succeeded, that is, only if the
\* file now holds the worker's bytes.
C18_FailedWorkerSendsNothing ==
    [][\A wk \in workers :
          (/\ wk.kind = "save_image"
           /\ wk.pc = "write"
           /\ [wk EXCEPT !.pc = "send"] \in workers') =>
              files'[ImagePath(wk.image_identifier, wk.image_format)] = Some(wk.data)]_vars

\* C19: a serve call that has seen an expired row is never held up by the
\* post of CleanExpired: it can take its next step whether or not the channel
\* has room.
C19_SweepPostNeverBlocks ==
    \A s \in ServeSlots :
        serves[s].pc = "send_clean" => ENABLED ServeSendClean(s)

\* C20: a serve call on the miss path that is cancelled after its transcode
\* still leaves the new derivative behind: eventually the row of its
\* (identifier, format) exists and is marked computed.
C20_CancelledMissPersists ==
    \A i \in Ids, f \in Formats :
        (\E s \in ServeSlots :
            /\ serves[s].pc = "done"
            /\ serves[s].result = "Cancelled"
            /\ serves[s].data # None
            /\ serves[s].image_id = Some(i)
            /\ unwrap_or_default(serves[s].settings.image_format) = f)
        ~> (\E r \in RowsOf(i, f) : r.computed)

\* the path of the file of row r
PathOf(r) == ImagePath(r.image_identifier, Unwrap(from_str(r.image_format)))

\* C21: a CleanExpired sweep run at time now deletes exactly the rows with
\* expires_at < now and computed = true and touches no file in that step;
\* rows are deleted by nothing else; a file is removed only at the path of a
\* row a sweep deleted, one file at a time, and no row changes with it.
C21_SweepDeletesExactly ==
    [][/\ clean_tasks' < clean_tasks =>
            /\ images' = images \ {r \in images : r.expires_at < now /\ r.computed}
            /\ files' = files
            /\ \A p \in Paths :
                  removals'[p] = removals[p]
                                 + (IF \E r \in Deleted : PathOf(r) = p THEN 1 ELSE 0)
       /\ \A r \in Deleted :
            r.expires_at < now /\ r.computed /\ clean_tasks' < clean_tasks
       /\ \A p \in Paths :
            (files[p] # None /\ files'[p] = None) =>
                /\ removals[p] > 0
                /\ removals'[p] = removals[p] - 1
                /\ images' = images
                /\ \A q \in Paths \ {p} : files'[q] = files[q]]_vars

\* a sweep has deleted an expired computed row, whose file it still has to
\* remove, and has left a row that is not expired
C21_Witness ==
    /\ \E p \in Paths : removals[p] > 0 /\ files[p] # None
    /\ \E r \in images : r.expires_at >= now

\* C22: every row is inserted with computed = false; the flag of a row never
\* goes back from true to false; it changes only in the image_computed task;
\* and running the UPDATE of image_computed twice gives the same table as
\* running it once.
C22_ComputedMonotone ==
    [][/\ \A new \in Inserted : new.computed = FALSE
       /\ \A r \in images, q \in images' :
            (q.image_identifier = r.image_identifier /\ q.image_format = r.image_format) =>
                /\ r.computed => q.computed
                /\ q.computed # r.computed =>
                      \E k \in Keys : /\ computed_tasks'[k] < computed_tasks[k]
                                       /\ k[1] = r.image_identifier
                                       /\ to_str(k[2]) = r.image_format
       /\ \A k \in Keys :
            image_computed(image_computed(images, k[1], k[2]), k[1], k[2])
                = image_computed(images, k[1], k[2])]_vars

\* image_computed has marked one row while another row, inserted with the
\* default, is still not marked
C22_Witness ==
    /\ \E r \in images : r.computed
    /\ \E r \in images : ~r.computed

\* C23: when a serve call on the miss path opens its source file, the row of
\* that file was live at the lookup and is marked computed.
C23_MissSourceComputed ==
    [][\A s \in ServeSlots :
          (/\ serves[s].pc = "decode"
           /\ serves'[s].pc # "decode"
           /\ serves'[s].result # "Cancelled") =>
              \E r \in images :
                  /\ r.image_identifier = Unwrap(serves[s].image_id)
                  /\ PathOf(r) = Unwrap(serves[s].location.path)
                  /\ r.expires_at > Unwrap(serves[s].max_time)
                  /\ r.computed]_vars

\* C24: no step removes the file of an (identifier, format) whose row exists
\* at that moment, whose writer has finished its write, and which has a live
\* sibling in another format.
C24_SweepSparesLiveFile ==
    [][\A p \in Paths :
          (files[p] # None /\ files'[p] = None) =>
              ~\E r \in images :
                  /\ PathOf(r) = p
                  /\ ~Writing(r.image_identifier, Unwrap(from_str(r.image_format)))
                  /\ \E q \in images : /\ q.image_identifier = r.image_identifier
                                        /\ q.image_format # r.image_format
                                        /\ q.expires_at > now]_vars

\* C25: a serve call on the miss path whose target (identifier, format) still
\* has an expired row that no sweep has deleted does not answer with an
\* internal error.
C25_LeftoverRowNoError ==
    [][\A s \in ServeSlots :
          (/\ serves[s].pc = "save"
           /\ serves'[s].pc = "done"
           /\ \E r \in RowsOf(Unwrap(serves[s].image_id),
                               unwrap_or_default(serves[s].settings.image_format)) :
                  r.expires_at < Unwrap(serves[s].max_time)) =>
              serves'[s].result # "InternalServerError"]_vars

\* C26: every stored file has the dimensions of the uploaded picture, and a
\* serve call without width and height returns a picture of those dimensions,
\* whatever resize the request that created the derivative asked for.
C26_PersistedAtSourceSize ==
    /\ \A p \in Paths, picture \in Uploadable :
          files[p] # None =>
              Unwrap(files[p]).w = picture.w /\ Unwrap(files[p]).h = picture.h
    /\ \A s \in ServeSlots, picture \in Uploadable :
          (/\ serves[s].pc = "done" /\ serves[s].result = "Ok"
           /\ serves[s].settings.image_width = None
           /\ serves[s].settings.image_height = None) =>
              /\ Unwrap(serves[s].data).w = picture.w
              /\ Unwrap(serves[s].data).h = picture.h
====
